---- MODULE Spec2Model ----
(***************************************************************************)
(* Model of the WhatsApp appointment assistant: src/main.py (the webhook   *)
(* handler, the language-model call, the outbound send) and src/db.py      *)
(* (the appointments table).                                               *)
(*                                                                         *)
(* Text is a sequence of tokens (strings).  A fixed message of the source  *)
(* is one token; an f-string is the concatenation of its literal parts and *)
(* its interpolated values; a date string is a sequence of one-character   *)
(* tokens, so that strptime and strftime are computed character by         *)
(* character.                                                              *)
(***************************************************************************)
EXTENDS Integers, Sequences, FiniteSets, TLC

\* ------------------------------------------------------------------ bounds
\* Rows the appointments table may hold; a booking that would exceed it is
\* not taken.
MaxRows == 2

\* ------------------------------------------------------------ text helpers
Whitespace == {" ", "\n"}

RECURSIVE LStrip(_)
LStrip(s) == IF s # <<>> /\ Head(s) \in Whitespace THEN LStrip(Tail(s)) ELSE s

RECURSIVE RStrip(_)
RStrip(s) ==
  IF s # <<>> /\ s[Len(s)] \in Whitespace THEN RStrip(SubSeq(s, 1, Len(s) - 1)) ELSE s

\* str.strip()
Strip(s) == RStrip(LStrip(s))

\* sub occurs in s as a contiguous run of tokens (Python's `sub in s`)
Contains(s, sub) ==
  \E i \in 1..(Len(s) - Len(sub) + 1) : SubSeq(s, i, i + Len(sub) - 1) = sub

\* "\n".join(lines)
RECURSIVE JoinLines(_)
JoinLines(lines) ==
  IF lines = <<>> THEN <<>>
  ELSE IF Len(lines) = 1 THEN Head(lines)
  ELSE Head(lines) \o <<"\n">> \o JoinLines(Tail(lines))

\* --------------------------------------------------------- calendar dates
\* A datetime.date is <<year, month, day>>.
DigitChars == <<"0", "1", "2", "3", "4", "5", "6", "7", "8", "9">>
IsDigit(c) == \E i \in 1..10 : DigitChars[i] = c
DigitVal(c) == (CHOOSE i \in 1..10 : DigitChars[i] = c) - 1

IsLeap(y) == (y % 4 = 0 /\ y % 100 # 0) \/ y % 400 = 0
DaysInMonth(y, m) ==
  IF m = 2 THEN (IF IsLeap(y) THEN 29 ELSE 28)
  ELSE IF m \in {4, 6, 9, 11} THEN 30 ELSE 31

\* datetime.date(y, m, d) raises ValueError unless this holds
ValidDate(y, m, d) ==
  /\ y \in 1..9999
  /\ m \in 1..12
  /\ d \in 1..DaysInMonth(y, m)

\* DateLess that finds no date earlier than another.
DateLess_Never(a, b) == FALSE

\* A comparison that also turns today away (<= written for <).
DateLess_OrEqual(a, b) ==
  \/ a[1] < b[1]
  \/ a[1] = b[1] /\ a[2] < b[2]
  \/ a[1] = b[1] /\ a[2] = b[2] /\ a[3] <= b[3]

\* date.__lt__
DateLess(a, b) ==
  \/ a[1] < b[1]
  \/ a[1] = b[1] /\ a[2] < b[2]
  \/ a[1] = b[1] /\ a[2] = b[2] /\ a[3] < b[3]

NextDay(t) ==
  IF t[3] < DaysInMonth(t[1], t[2]) THEN <<t[1], t[2], t[3] + 1>>
  ELSE IF t[2] < 12 THEN <<t[1], t[2] + 1, 1>>
  ELSE <<t[1] + 1, 1, 1>>

\* Positions of "-" in a string.
Dashes(s) == {i \in 1..Len(s) : s[i] = "-"}

\* The regular expression strptime compiles for %m: 1[0-2]|0[1-9]|[1-9]
MonthField(f) ==
  \/ Len(f) = 2 /\ f[1] = "1" /\ f[2] \in {"0", "1", "2"}
  \/ Len(f) = 2 /\ f[1] = "0" /\ IsDigit(f[2]) /\ f[2] # "0"
  \/ Len(f) = 1 /\ IsDigit(f[1]) /\ f[1] # "0"

\* for %d: 3[0-1]|[1-2]\d|0[1-9]|[1-9]| [1-9]
DayField(f) ==
  \/ Len(f) = 2 /\ f[1] = "3" /\ f[2] \in {"0", "1"}
  \/ Len(f) = 2 /\ f[1] \in {"1", "2"} /\ IsDigit(f[2])
  \/ Len(f) = 2 /\ f[1] \in {"0", " "} /\ IsDigit(f[2]) /\ f[2] # "0"
  \/ Len(f) = 1 /\ IsDigit(f[1]) /\ f[1] # "0"

\* for %Y: \d\d\d\d
YearField(f) == Len(f) = 4 /\ \A i \in 1..4 : IsDigit(f[i])

RECURSIVE FieldVal(_)
FieldVal(f) ==
  IF f = <<>> THEN 0
  ELSE IF f[Len(f)] = " " THEN 0
  ELSE 10 * FieldVal(SubSeq(f, 1, Len(f) - 1)) + DigitVal(f[Len(f)])

NoDate == <<0, 0, 0>>

\* datetime.datetime.strptime(date_str, "%Y-%m-%d").date(): the date, or
\* NoDate where strptime raises ValueError.  The match must cover the whole
\* string: the three fields are what lies between the two "-".
strptime(s) ==
  IF Cardinality(Dashes(s)) # 2 THEN NoDate
  ELSE LET i == CHOOSE k \in Dashes(s) : \A j \in Dashes(s) : k <= j
           j == CHOOSE k \in Dashes(s) : k # i
           yf == SubSeq(s, 1, i - 1)
           mf == SubSeq(s, i + 1, j - 1)
           df == SubSeq(s, j + 1, Len(s))
       IN IF YearField(yf) /\ MonthField(mf) /\ DayField(df)
             /\ ValidDate(FieldVal(yf), FieldVal(mf), FieldVal(df))
          THEN <<FieldVal(yf), FieldVal(mf), FieldVal(df)>>
          ELSE NoDate

Pad2(n) == <<DigitChars[(n \div 10) + 1], DigitChars[(n % 10) + 1]>>
Pad4(n) == Pad2(n \div 100) \o Pad2(n % 100)

\* date.strftime('%Y-%m-%d')
strftime(t) == Pad4(t[1]) \o <<"-">> \o Pad2(t[2]) \o <<"-">> \o Pad2(t[3])

\* ------------------------------------------------- fixed texts of the source
AUDIO_FAIL == <<"AUDIO_FAIL">>            \* main.py:164
PAST_DATE == <<"PAST_DATE">>              \* main.py:183
DATE_FORMAT == <<"DATE_FORMAT">>          \* main.py:189
STORAGE_ERROR == <<"STORAGE_ERROR", "+20 2 1234-5678">>   \* main.py:192
MISSING_FIELDS == <<"MISSING_FIELDS">>    \* main.py:194
LIST_HEADER == <<"LIST_HEADER">>          \* main.py:199
NO_APPOINTMENTS == <<"NO_APPOINTMENTS">>  \* main.py:204
CLARIFY == <<"CLARIFY">>                  \* main.py:207 and 209
UNEXPECTED == <<"UNEXPECTED">>            \* main.py:215
PARSE_FALLBACK == <<"PARSE_FALLBACK">>    \* main.py:263
MODEL_ERROR == <<"MODEL_ERROR", "+20 2 1234-5678">>       \* main.py:267

\* f-string of main.py:187
Confirmation(name, date_str) ==
  <<"CONFIRM_1">> \o name \o <<"CONFIRM_2">> \o date_str
    \o <<"CONFIRM_3", "+20 2 1234-5678", "CONFIRM_4">>

\* f-string of main.py:201
ListingLine(appt) == <<"- ">> \o appt.name \o <<" on ">> \o strftime(appt.time)

\* ------------------------------------------------------------- JSON values
\* A JSON value read out of the model's record: absent key, null, a string
\* (its tokens) or a number.
Absent == [t |-> "absent", v |-> <<>>]
Null == [t |-> "null", v |-> <<>>]
Str(v) == [t |-> "str", v |-> v]
Num(v) == [t |-> "num", v |-> v]

\* Truthy as a test for None alone.
Truthy_NotNone(val) == val.t # "absent" /\ val.t # "null"

\* Python truthiness of dict.get(key): None and "" are falsy.
Truthy(val) == (val.t = "str" /\ val.v # <<>>) \/ val.t = "num"

\* What json.loads returns: an object with the four keys the handler reads,
\* or a value that is no object (array, string, null), or nothing at all
\* when the text is not JSON ("broken") or is empty ("empty").
Doc(kind, action, name, date, response) ==
  [kind |-> kind, action |-> action, name |-> name, date |-> date,
   response |-> response]
Object(action, name, date, response) == Doc("object", action, name, date, response)
Other(kind) == Doc(kind, Absent, Absent, Absent, Absent)
NoDoc == Other("none")

ValueTokens(key, val) ==
  IF val.t = "absent" THEN <<>>
  ELSE IF val.t = "null" THEN <<key, "null", ",">>
  ELSE <<key>> \o val.v \o <<",">>

\* The source text of a document.
DocTokens(doc) ==
  IF doc.kind = "object"
  THEN <<"{">> \o ValueTokens("action:", doc.action) \o ValueTokens("name:", doc.name)
         \o ValueTokens("date:", doc.date) \o ValueTokens("response:", doc.response)
         \o <<"}">>
  ELSE IF doc.kind = "array" THEN <<"[", "1", "]">>
  ELSE IF doc.kind = "string" THEN <<"\"", "hello", "\"">>
  ELSE IF doc.kind = "null" THEN <<"null">>
  ELSE IF doc.kind = "broken" THEN <<"sorry", " ", "what?">>
  ELSE <<>>

\* The model's raw output: a document with text before and after it.
Raw(pre, doc, post) == [pre |-> pre, doc |-> doc, post |-> post]
NoRaw == Raw(<<>>, NoDoc, <<>>)

\* response.text
RawText(raw) == raw.pre \o DocTokens(raw.doc) \o raw.post

\* json.loads(response.text): JSON allows whitespace around the one document
\* and nothing else; NoDoc stands for json.JSONDecodeError.
json_loads(raw) ==
  IF /\ \A i \in 1..Len(raw.pre) : raw.pre[i] \in Whitespace
     /\ \A i \in 1..Len(raw.post) : raw.post[i] \in Whitespace
     /\ raw.doc.kind \in {"object", "array", "string", "null"}
  THEN raw.doc
  ELSE NoDoc

\* get_gemini_response whose outer except clause answers with the fallback
\* of the JSON branch.
get_gemini_response_WrongApology(llm, raw) ==
  IF llm = "error"
  THEN Object(Str(<<"chat">>), Absent, Absent, Str(PARSE_FALLBACK))
  ELSE IF json_loads(raw) # NoDoc
  THEN json_loads(raw)
  ELSE Object(Str(<<"chat">>), Absent, Absent,
              Str(IF Strip(RawText(raw)) # <<>> THEN Strip(RawText(raw))
                  ELSE PARSE_FALLBACK))

\* main.py:244-267.  llm is the outcome of model.generate_content: "ok" with
\* the raw output, or "error" when the call raises.
get_gemini_response(llm, raw) ==
  IF llm = "error"
  THEN Object(Str(<<"chat">>), Absent, Absent, Str(MODEL_ERROR))
  ELSE IF json_loads(raw) # NoDoc
  THEN json_loads(raw)
  ELSE Object(Str(<<"chat">>), Absent, Absent,
              Str(IF Strip(RawText(raw)) # <<>> THEN Strip(RawText(raw))
                  ELSE PARSE_FALLBACK))

\* ------------------------------------------------------------ the table
\* Appointment (db.py:36-44): id, name, time.  The table is the sequence of
\* its rows in insertion order.
Appointment(id, name, time) == [id |-> id, name |-> name, time |-> time]

\* A row that is built and never saved.
create_NotSaved(rows, nextId, name, time) == rows

\* create as get-or-create: no second row for a name and date already
\* stored.
create_GetOrCreate(rows, nextId, name, time) ==
  IF \E i \in 1..Len(rows) : rows[i].name = name /\ rows[i].time = time
  THEN rows
  ELSE Append(rows, Appointment(nextId, name, time))

\* Appointment.create(name=name, time=appointment_date) when the INSERT
\* succeeds: a new row with the next value of the serial primary key.
create(rows, nextId, name, time) == Append(rows, Appointment(nextId, name, time))

\* The row orders SELECT ... ORDER BY time ASC may return: rows ordered by
\* time; the order among rows of equal time is left to the database.
IsPermutation(f, n) == \A i \in 1..n : \E j \in 1..n : f[j] = i

\* A SELECT without its ORDER BY: the rows in any order.
OrderByTimeAsc_Unordered(rows) ==
  { [i \in 1..Len(rows) |-> rows[f[i]]] :
      f \in { g \in [1..Len(rows) -> 1..Len(rows)] : IsPermutation(g, Len(rows)) } }

OrderByTimeAsc(rows) ==
  { [i \in 1..Len(rows) |-> rows[f[i]]] :
      f \in { g \in [1..Len(rows) -> 1..Len(rows)] :
                /\ IsPermutation(g, Len(rows))
                /\ \A i \in 1..(Len(rows) - 1) :
                     ~DateLess(rows[g[i + 1]].time, rows[g[i]].time) } }

\* ------------------------------------------------------- one handler run
\* The locals of handle_webhook and the calls it made.  status is what the
\* HTTP client gets: "ok" for {"status": "ok"}, "exception" when an
\* exception leaves the handler.  caught is the exception the handler's
\* except clause (main.py:213) caught; exc the one in flight.  llm_calls
\* counts the calls of model.generate_content (main.py:255), parsed tells
\* whether strptime was called (main.py:181).
NewRun(rows, nextId) ==
  [sender_phone |-> "unbound", msg_type |-> "unbound", media |-> "none",
   llm |-> "none", llm_calls |-> 0, raw |-> NoRaw,
   gemini_structured_response |-> NoDoc, parsed |-> FALSE,
   db |-> <<>>, rows |-> rows, nextId |-> nextId,
   response_to_user |-> <<>>, sends |-> <<>>,
   exc |-> "none", caught |-> "none", returned |-> FALSE, status |-> "pending"]

SendOutcomes == {"delivered", "http_error", "conn_error"}

\* send_message (main.py:269-288).  "delivered": the POST succeeds.
\* "http_error": raise_for_status raises, the except clause prints the
\* response body.  "conn_error": requests.post itself raises, response is
\* never bound, and print(response.text) in the except clause raises
\* UnboundLocalError out of send_message.
send_message(run, message_text) ==
  { [run EXCEPT !.sends = Append(@, [to |-> run.sender_phone,
                                     body |-> message_text, out |-> o]),
                !.exc = IF o = "conn_error" THEN "UnboundLocalError" ELSE @]
    : o \in SendOutcomes }

MediaOutcomes == {"ok", "meta_fail", "download_fail"}

\* The book_appointment branch (main.py:174-194).
BookAppointment(run, today) ==
  LET g == run.gemini_structured_response
      name == g.name
      date_str == g.date
      appointment_date == strptime(date_str.v)
      called == [run EXCEPT !.parsed = TRUE]
  IN IF ~(Truthy(name) /\ Truthy(date_str))
     THEN {[run EXCEPT !.response_to_user = MISSING_FIELDS]}
     ELSE IF date_str.t # "str"
     THEN \* strptime raises TypeError: caught by `except Exception`
          {[called EXCEPT !.response_to_user = STORAGE_ERROR]}
     ELSE IF appointment_date = NoDate
     THEN {[called EXCEPT !.response_to_user = DATE_FORMAT]}
     ELSE IF DateLess(appointment_date, today)
     THEN {[called EXCEPT !.response_to_user = PAST_DATE]}
     ELSE { [called EXCEPT !.db = Append(@, [op |-> "create", out |-> "ok"]),
                        !.rows = create(@, run.nextId, name.v, appointment_date),
                        !.nextId = @ + 1,
                        !.response_to_user = Confirmation(name.v, date_str.v)],
            [called EXCEPT !.db = Append(@, [op |-> "create", out |-> "error"]),
                           !.response_to_user = STORAGE_ERROR] }

\* The two queries of the list_appointments branch (main.py:196-204), each
\* on the table as it is when the query runs (run.rows), each able to
\* raise.  all_appointments.count() (main.py:198) is a COUNT query;
\* iterating all_appointments (main.py:200) is the SELECT ordered by time.
CountRows(run) ==
  { [run EXCEPT !.db = Append(@, [op |-> "count", out |-> "ok"])],
    [run EXCEPT !.db = Append(@, [op |-> "count", out |-> "error"]),
                !.exc = "DatabaseError"] }

SelectRows(run) ==
  {[run EXCEPT !.db = Append(@, [op |-> "select", out |-> "error"]),
               !.exc = "DatabaseError"]}
  \cup
  { [run EXCEPT
       !.db = Append(@, [op |-> "select", out |-> "ok"]),
       !.response_to_user =
          JoinLines(<<LIST_HEADER>>
                    \o [i \in 1..Len(all) |-> ListingLine(all[i])])]
    : all \in OrderByTimeAsc(run.rows) }

\* `> 0` with the count overstated by one.
HasRows_OrNone(n) == n >= 0

\* all_appointments.count() > 0 (main.py:198)
HasRows(n) == n > 0

\* The list_appointments branch (main.py:196-204) with no other writer
\* between its two queries.
ListAppointments(run) ==
  UNION { IF r.exc # "none" THEN {r}
          ELSE IF HasRows(Len(r.rows)) THEN SelectRows(r)
          ELSE {[r EXCEPT !.response_to_user = NO_APPOINTMENTS]}
          : r \in CountRows(run) }

\* GetResponse with the record's response field ignored.
GetResponse_IgnoresField(g) == CLARIFY

\* dict.get("response", default) (main.py:207, 209)
GetResponse(g) ==
  IF g.response.t = "absent" THEN CLARIFY
  ELSE IF g.response.t = "null" THEN <<"None">>
  ELSE g.response.v

\* main.py:172-211: read the action, run its branch, send the reply.
Dispatch(run, today) ==
  LET g == run.gemini_structured_response
      replied ==
        IF g.kind # "object"
        THEN \* .get on a list, a str or None
             {[run EXCEPT !.exc = "AttributeError"]}
        ELSE IF g.action = Str(<<"book_appointment">>)
        THEN BookAppointment(run, today)
        ELSE IF g.action = Str(<<"list_appointments">>)
        THEN ListAppointments(run)
        ELSE {[run EXCEPT !.response_to_user = GetResponse(g)]}
  IN UNION { IF r.exc = "none" THEN send_message(r, r.response_to_user) ELSE {r}
             : r \in replied }

\* ------------------------------------------------------------------ inputs
Senders == {"201001", "201002"}

\* The body of a POST /webhook delivery, by what the handler reads of it:
\* json: the body is JSON; dict: the JSON is an object; envelope: "full"
\* when object, entry, changes, value and messages are all there, "absent"
\* when one of the .get lookups finds nothing (a status notification),
\* "malformed" when a level is not of the expected type; from, type: the
\* message's keys ("absent" when missing); content: text.body, or audio.id,
\* is there.
Payload(json, dict, envelope, from, type, content) ==
  [json |-> json, dict |-> dict, envelope |-> envelope, from |-> from,
   type |-> type, content |-> content]

Payloads ==
  {Payload(FALSE, FALSE, "absent", "absent", "absent", FALSE),
   Payload(TRUE, FALSE, "absent", "absent", "absent", FALSE),
   Payload(TRUE, TRUE, "absent", "absent", "absent", FALSE),
   Payload(TRUE, TRUE, "malformed", "absent", "absent", FALSE),
   Payload(TRUE, TRUE, "full", "absent", "text", TRUE)}
  \cup { Payload(TRUE, TRUE, "full", s, t, c) :
           s \in Senders, t \in {"text", "audio"}, c \in BOOLEAN }
  \cup { Payload(TRUE, TRUE, "full", s, t, FALSE) :
           s \in Senders, t \in {"absent", "image"} }

Names == {<<"Ahmed">>, <<"Mona">>}

DateStrings ==
  {<<"2", "0", "2", "5", "-", "0", "7", "-", "1", "0">>,
   <<"2", "0", "2", "5", "-", "0", "7", "-", "1", "5">>,
   <<"2", "0", "2", "5", "-", "0", "7", "-", "2", "0">>,
   <<"2", "0", "2", "5", "-", "7", "-", "2", "0">>,
   <<"2", "0", "2", "5", "/", "0", "7", "/", "2", "0">>,
   <<"2", "0", "2", "5", "-", "0", "7">>,
   <<"2", "0", "2", "5", "-", "0", "2", "-", "3", "0">>,
   <<"n", "e", "x", "t", "-", "m", "o", "n">>}

\* The first calendar day of a behaviour: 2025-07-15.
StartDay == <<2025, 7, 15>>

Docs ==
  { Object(Str(<<"book_appointment">>), n, d, Absent) :
      n \in {Absent, Str(<<>>)} \cup {Str(x) : x \in Names},
      d \in {Absent, Str(<<>>), Num(<<"20250720">>)}
            \cup {Str(x) : x \in DateStrings} }
  \cup {Object(Str(<<"list_appointments">>), Absent, Absent, Absent)}
  \cup { Object(a, Absent, Absent, r) :
           a \in {Str(<<"chat">>), Str(<<"cancel">>), Null, Absent},
           r \in {Absent, Str(<<"at your service">>)} }
  \cup {Other("array"), Other("string"), Other("null"), Other("broken"),
        Other("empty")}

\* Text around the document: nothing, whitespace, a code fence ("<fence>" is
\* the triple-backtick marker) with and without the json tag.
Wraps ==
  {<< <<" ">>, <<"\n">> >>,
   << <<"<fence>", "json", "\n">>, <<"\n", "<fence>">> >>,
   << <<"<fence>", "\n">>, <<"\n", "<fence>">> >>}

\* The documents tried with text around them.
WrappedDocs ==
  {Object(Str(<<"book_appointment">>), Str(<<"Ahmed">>),
          Str(<<"2", "0", "2", "5", "-", "0", "7", "-", "2", "0">>), Absent),
   Object(Str(<<"list_appointments">>), Absent, Absent, Absent),
   Object(Str(<<"chat">>), Absent, Absent, Str(<<"at your service">>)),
   Object(Absent, Absent, Absent, Absent),
   Other("broken"), Other("empty")}

Raws ==
  { Raw(<<>>, d, <<>>) : d \in Docs }
  \cup { Raw(w[1], d, w[2]) : w \in Wraps, d \in WrappedDocs }

\* ----------------------------------------------------------- the handler
\* main.py:131-211, the body of the try block.
TryBlock(p, run, today) ==
  IF ~p.dict
  THEN {[run EXCEPT !.exc = "AttributeError"]}
  ELSE IF p.envelope = "absent"
  THEN {run}
  ELSE IF p.envelope = "malformed"
  THEN {[run EXCEPT !.exc = "AttributeError"]}
  ELSE IF p.from = "absent"
  THEN {[run EXCEPT !.exc = "KeyError"]}
  ELSE
    LET r1 == [run EXCEPT !.sender_phone = p.from]
        r2 == [r1 EXCEPT !.msg_type = p.type]
        extract(r) ==
          UNION { LET q == [r EXCEPT
                             !.llm = m[1], !.llm_calls = @ + 1,
                             !.raw = m[2],
                             !.gemini_structured_response =
                                get_gemini_response(m[1], m[2])]
                  IN Dispatch(q, today)
                  : m \in {<<"error", NoRaw>>} \cup {<<"ok", x>> : x \in Raws} }
    IN IF p.type = "absent"
       THEN {[r1 EXCEPT !.exc = "KeyError"]}
       ELSE IF p.type = "text"
       THEN IF ~p.content THEN {[r2 EXCEPT !.exc = "KeyError"]}
            ELSE extract(r2)
       ELSE IF p.type = "audio"
       THEN IF ~p.content THEN {[r2 EXCEPT !.exc = "KeyError"]}
            ELSE UNION { IF m = "ok"
                         THEN extract([r2 EXCEPT !.media = m])
                         ELSE { [r EXCEPT !.returned = (r.exc = "none")] :
                                r \in send_message([r2 EXCEPT !.media = m],
                                                   AUDIO_FAIL) }
                         : m \in MediaOutcomes }
       ELSE {r2}

\* main.py:213-217: the except clause and the return.
ExceptClause(run) ==
  IF run.exc = "none"
  THEN {[run EXCEPT !.status = "ok"]}
  ELSE IF run.sender_phone = "unbound"
  THEN \* send_message(sender_phone, ...) reads a local never assigned
       {[run EXCEPT !.caught = run.exc, !.exc = "UnboundLocalError",
                    !.status = "exception"]}
  ELSE { [r EXCEPT !.status = IF r.exc = "none" THEN "ok" ELSE "exception"] :
         r \in send_message([run EXCEPT !.caught = run.exc, !.exc = "none"],
                            UNEXPECTED) }

\* handle_webhook (main.py:125-217) on one delivery: every run it can take.
handle_webhook(p, rows, nextId, today) ==
  IF ~p.json
  THEN \* await request.json() raises before the try block
       {[NewRun(rows, nextId) EXCEPT !.exc = "JSONDecodeError",
                                     !.status = "exception"]}
  ELSE UNION { ExceptClause(r) : r \in TryBlock(p, NewRun(rows, nextId), today) }

\* ------------------------------------------------------ GET /webhook
\* The verify token of the environment (main.py:17), non-empty (main.py:21).
VERIFY_TOKEN == <<"clinic-secret">>

\* Python's int() on a query parameter: None raises TypeError; a string is
\* stripped of surrounding whitespace, may carry one sign, and must then be
\* decimal digits, single underscores allowed between digits; anything else
\* raises ValueError.  The value is the number, so leading zeros and the
\* sign "+" are not kept.
IntBody(s) == IF s # <<>> /\ Head(s) \in {"+", "-"} THEN Tail(s) ELSE s

IntLiteral(b) ==
  /\ b # <<>>
  /\ \A i \in 1..Len(b) :
       \/ IsDigit(b[i])
       \/ /\ b[i] = "_"
          /\ 1 < i /\ i < Len(b)
          /\ IsDigit(b[i - 1]) /\ IsDigit(b[i + 1])

RECURSIVE IntDigits(_)
IntDigits(b) ==
  IF b = <<>> THEN 0
  ELSE IF b[Len(b)] = "_" THEN IntDigits(SubSeq(b, 1, Len(b) - 1))
  ELSE 10 * IntDigits(SubSeq(b, 1, Len(b) - 1)) + DigitVal(b[Len(b)])

int(val) ==
  IF val.t # "str" THEN [exc |-> "TypeError", v |-> 0]
  ELSE LET s == Strip(val.v)
           b == IntBody(s)
       IN IF ~IntLiteral(b) THEN [exc |-> "ValueError", v |-> 0]
          ELSE [exc |-> "none",
                v |-> IF Head(s) = "-" THEN 0 - IntDigits(b) ELSE IntDigits(b)]

\* One GET /webhook exchange: the three query parameters and the HTTP
\* response.  status 0: none in flight; 200 with the returned integer as
\* body; 403 for the HTTPException; 500 when an exception other than
\* HTTPException leaves the function.
Exchange(mode, token, challenge, status, body, exc) ==
  [mode |-> mode, token |-> token, challenge |-> challenge,
   status |-> status, body |-> body, exc |-> exc]

NoVerify == Exchange(Absent, Absent, Absent, 0, 0, "none")

\* verify_webhook (main.py:114-123)
verify_webhook(mode, token, challenge) ==
  IF mode = Str(<<"subscribe">>) /\ token = Str(VERIFY_TOKEN)
  THEN IF int(challenge).exc = "none"
       THEN Exchange(mode, token, challenge, 200, int(challenge).v, "none")
       ELSE Exchange(mode, token, challenge, 500, 0, int(challenge).exc)
  ELSE Exchange(mode, token, challenge, 403, 0, "HTTPException")

\* Query parameters of the requests: request.query_params.get gives None
\* for a parameter that is not in the query string.
Modes == {Absent, Str(<<"subscribe">>), Str(<<"unsubscribe">>)}
Tokens == {Absent, Str(<<>>), Str(VERIFY_TOKEN), Str(<<"guess">>)}
Challenges ==
  {Absent, Str(<<>>), Str(<<"4", "2", "4", "2">>), Str(<<"0", "0", "7">>),
   Str(<<"-", "3">>), Str(<<" ", "4", "2">>), Str(<<"1", "_", "0">>),
   Str(<<"1", "2", ".", "5">>), Str(<<"a", "b", "c">>)}

\* ------------------------------------------------------------------ state
VARIABLES
  store,        \* the appointments table
  nextId,       \* the next value of its serial primary key
  today,        \* datetime.date.today()
  payload,      \* the delivery being answered
  last,         \* the run of handle_webhook on it (status "pending": none)
  before,       \* the table as the handler found it
  prevListing,  \* the reply of the latest listing answered, when no
                \* appointment was created since (else NoListing)
  verify,       \* the GET /webhook exchange in flight (NoVerify: none)
  inflight      \* the frames of the handlers that run side by side

vars ==
  <<store, nextId, today, payload, last, before, prevListing, verify, inflight>>

\* What the actions of one handler at a time leave alone, and what the
\* actions of handlers side by side leave alone.
serial == <<payload, last, before, prevListing, verify>>

NoPayload == Payload(FALSE, FALSE, "absent", "absent", "absent", FALSE)
NoListing == <<"no listing">>

\* The calendar days of a behaviour.
Days == {StartDay, NextDay(StartDay)}

\* No request is being answered.
Idle == last.status = "pending" /\ verify = NoVerify

\* Handlers side by side: one per sender, each a separate invocation of
\* handle_webhook (its own locals), all on the one appointments table.
Handlers == {1, 2}
SenderOf(h) == IF h = 1 THEN "201001" ELSE "201002"

\* A handler's frame: where it stands, its locals, and the value its count
\* query returned.
Frame(pc, run, count) == [pc |-> pc, run |-> run, count |-> count]
NoFrame == Frame("idle", NewRun(<<>>, 0), 0)

\* The run sent the reply of a listing that the database answered.
Listed(run) ==
  /\ run.db # <<>>
  /\ run.db[1].op = "count"
  /\ run.db[Len(run.db)].out = "ok"

\* The run inserted a row.
Created(run) == \E i \in 1..Len(run.db) : run.db[i] = [op |-> "create", out |-> "ok"]

Init ==
  /\ store = <<>>
  /\ nextId = 1
  /\ today = StartDay
  /\ payload = NoPayload
  /\ last = NewRun(<<>>, 1)
  /\ before = <<>>
  /\ prevListing = NoListing
  /\ verify = NoVerify
  /\ inflight = [h \in Handlers |-> NoFrame]

\* POST /webhook: the handler runs on one delivery.
HandleWebhook ==
  /\ Idle
  /\ \E p \in Payloads :
       \E r \in handle_webhook(p, store, nextId, today) :
         /\ Len(r.rows) <= MaxRows
         /\ payload' = p
         /\ last' = r
         /\ store' = r.rows
         /\ nextId' = r.nextId
         /\ prevListing' = IF Created(r) THEN NoListing ELSE prevListing
  /\ before' = store
  /\ UNCHANGED <<today, verify, inflight>>

\* GET /webhook: the verification endpoint answers one request.
VerifyWebhook ==
  /\ Idle
  /\ \E mode \in Modes : \E token \in Tokens : \E challenge \in Challenges :
       verify' = verify_webhook(mode, token, challenge)
  /\ UNCHANGED <<store, nextId, today, payload, last, before, prevListing, inflight>>

\* The HTTP response leaves and the handler's frame is gone.
Respond ==
  /\ ~Idle
  /\ last' = NewRun(store, nextId)
  /\ payload' = NoPayload
  /\ verify' = NoVerify
  /\ prevListing' = IF Listed(last) THEN last.response_to_user ELSE prevListing
  /\ before' = store
  /\ UNCHANGED <<store, nextId, today, inflight>>

\* The system clock passes midnight.
Tick ==
  /\ Idle
  /\ NextDay(today) \in Days
  /\ today' = NextDay(today)
  /\ UNCHANGED <<store, nextId, payload, last, before, prevListing, verify, inflight>>

Next == HandleWebhook \/ VerifyWebhook \/ Respond \/ Tick

Spec == Init /\ [][Next]_vars

\* ------------------------------------------- handlers side by side
\* The same handler, one call to the outside world per step, for text
\* messages of two senders.  Each step reads and writes the frame of its
\* own handler and the table; steps of the two handlers interleave freely.

\* What the model answers in these runs.
ConcDocs ==
  { Object(Str(<<"book_appointment">>), Str(<<"Ahmed">>),
           Str(<<"2", "0", "2", "5", "-", "0", "7", "-", "2", "0">>), Absent),
    Object(Str(<<"book_appointment">>), Str(<<"Mona">>),
           Str(<<"2", "0", "2", "5", "-", "0", "7", "-", "1", "5">>), Absent),
    Object(Str(<<"list_appointments">>), Absent, Absent, Absent),
    Object(Str(<<"chat">>), Absent, Absent, Str(<<"at your service">>)),
    Object(Str(<<"chat">>), Absent, Absent, Str(<<"we open at nine">>)),
    Other("array") }

\* The text a frame hands to send_message (main.py:211): a local.
ReplyText_Shared(fl, h) == fl[1].run.response_to_user

ReplyText(fl, h) == fl[h].run.response_to_user

\* main.py:128-147: the delivery is read; sender and type are bound.
Receive(h) ==
  /\ inflight[h].pc = "idle"
  /\ inflight' = [inflight EXCEPT
                    ![h] = Frame("model",
                                 [NewRun(<<>>, 0) EXCEPT
                                    !.sender_phone = SenderOf(h),
                                    !.msg_type = "text"], 0)]
  /\ UNCHANGED <<store, nextId, today, serial>>

\* main.py:170: the one call of get_gemini_response.
Generate(h) ==
  /\ inflight[h].pc = "model"
  /\ \E m \in {<<"error", NoRaw>>} \cup {<<"ok", Raw(<<>>, d, <<>>)>> : d \in ConcDocs} :
       inflight' = [inflight EXCEPT
                      ![h].pc = "dispatch",
                      ![h].run = [@ EXCEPT
                                    !.llm = m[1], !.llm_calls = @ + 1,
                                    !.raw = m[2],
                                    !.gemini_structured_response =
                                       get_gemini_response(m[1], m[2])]]
  /\ UNCHANGED <<store, nextId, today, serial>>

\* main.py:172-209: the branch of the action, up to and including its
\* first database call (the INSERT of a booking, the COUNT of a listing).
Act(h) ==
  /\ inflight[h].pc = "dispatch"
  /\ LET run == [inflight[h].run EXCEPT !.rows = store, !.nextId = nextId]
         g == run.gemini_structured_response
     IN IF g.kind # "object"
        THEN /\ inflight' = [inflight EXCEPT
                               ![h].pc = "except",
                               ![h].run = [run EXCEPT !.exc = "AttributeError"]]
             /\ UNCHANGED <<store, nextId>>
        ELSE IF g.action = Str(<<"book_appointment">>)
        THEN \E r \in BookAppointment(run, today) :
               /\ Len(r.rows) <= MaxRows
               /\ inflight' = [inflight EXCEPT ![h].pc = "send", ![h].run = r]
               /\ store' = r.rows
               /\ nextId' = r.nextId
        ELSE IF g.action = Str(<<"list_appointments">>)
        THEN /\ \E r \in CountRows(run) :
                  inflight' =
                    [inflight EXCEPT
                       ![h] = IF r.exc # "none" THEN Frame("except", r, 0)
                              ELSE IF HasRows(Len(r.rows))
                              THEN Frame("select", r, Len(r.rows))
                              ELSE Frame("send",
                                         [r EXCEPT !.response_to_user = NO_APPOINTMENTS],
                                         Len(r.rows))]
             /\ UNCHANGED <<store, nextId>>
        ELSE /\ inflight' = [inflight EXCEPT
                               ![h].pc = "send",
                               ![h].run = [run EXCEPT !.response_to_user = GetResponse(g)]]
             /\ UNCHANGED <<store, nextId>>
  /\ UNCHANGED <<today, serial>>

\* main.py:200-202: the SELECT of a listing, on the table as it is now.
Select(h) ==
  /\ inflight[h].pc = "select"
  /\ \E r \in SelectRows([inflight[h].run EXCEPT !.rows = store, !.nextId = nextId]) :
       inflight' = [inflight EXCEPT
                      ![h].pc = IF r.exc # "none" THEN "except" ELSE "send",
                      ![h].run = r]
  /\ UNCHANGED <<store, nextId, today, serial>>

\* main.py:211, 217: the reply is sent; the handler returns when the send
\* did not raise.
Send(h) ==
  /\ inflight[h].pc = "send"
  /\ \E r \in send_message(inflight[h].run, ReplyText(inflight, h)) :
       inflight' = [inflight EXCEPT
                      ![h].pc = IF r.exc # "none" THEN "except" ELSE "done",
                      ![h].run = IF r.exc # "none" THEN r
                                 ELSE [r EXCEPT !.returned = TRUE, !.status = "ok"]]
  /\ UNCHANGED <<store, nextId, today, serial>>

\* main.py:213-217: the except clause.
Except(h) ==
  /\ inflight[h].pc = "except"
  /\ \E r \in ExceptClause(inflight[h].run) :
       inflight' = [inflight EXCEPT ![h].pc = "done", ![h].run = r]
  /\ UNCHANGED <<store, nextId, today, serial>>

\* The HTTP response leaves and the frame is gone.
Return(h) ==
  /\ inflight[h].pc = "done"
  /\ inflight' = [inflight EXCEPT ![h] = NoFrame]
  /\ UNCHANGED <<store, nextId, today, serial>>

NextConc ==
  \/ \E h \in Handlers : Receive(h)
  \/ \E h \in Handlers : Generate(h)
  \/ \E h \in Handlers : Act(h)
  \/ \E h \in Handlers : Select(h)
  \/ \E h \in Handlers : Send(h)
  \/ \E h \in Handlers : Except(h)
  \/ \E h \in Handlers : Return(h)

SpecConc == Init /\ [][NextConc]_vars

\* ------------------------------------------------------ reading a run
\* The handler has run on `payload` and its response has not left yet.
Done == last.status # "pending"

\* The record handed to the dispatcher.
Intent == last.gemini_structured_response

BookIntent ==
  Done /\ Intent.kind = "object" /\ Intent.action = Str(<<"book_appointment">>)

\* The sender of the delivery can be read from it.
SenderKnown == payload.envelope = "full" /\ payload.from \in Senders

\* A database call of the run failed.
DbFailed == \E i \in 1..Len(last.db) : last.db[i].out = "error"

\* The reply of the run: the text of its first send_message call.
Replied(text) == last.sends # <<>> /\ last.sends[1].body = text

\* s is written YYYY-MM-DD: four digits, two digits, two digits.
IsoForm(s) ==
  /\ Len(s) = 10
  /\ s[5] = "-" /\ s[8] = "-"
  /\ \A i \in {1, 2, 3, 4, 6, 7, 9, 10} : IsDigit(s[i])

\* The calendar date an IsoForm string names, read digit by digit.
IsoValue(s) ==
  <<1000 * DigitVal(s[1]) + 100 * DigitVal(s[2]) + 10 * DigitVal(s[3]) + DigitVal(s[4]),
    10 * DigitVal(s[6]) + DigitVal(s[7]),
    10 * DigitVal(s[9]) + DigitVal(s[10])>>

IsoDate(s) == IsoForm(s) /\ ValidDate(IsoValue(s)[1], IsoValue(s)[2], IsoValue(s)[3])

\* Calendar order as one number.
Ordinal(t) == 10000 * t[1] + 100 * t[2] + t[3]

\* ------------------------------------------------------------------ claims

\* C1: for every inbound text or audio message whose sender can be
\* identified, exactly one send_message attempt is made, on every branch,
\* whatever fails.  (As stated; the code makes a second attempt when the
\* first send raises.)
C1_ExactlyOneSend ==
  (Done /\ SenderKnown /\ payload.type \in {"text", "audio"})
    => Len(last.sends) = 1

\* C2: every POST /webhook delivery whose body is a JSON object is
\* acknowledged with {"status": "ok"} and no exception leaves the handler;
\* when the sender cannot be determined no reply is sent.  (As stated; the
\* code raises out of its except clause when the sender was never read.)
C2_AlwaysAcknowledged ==
  (Done /\ payload.json /\ payload.dict)
    => /\ last.status = "ok"
       /\ (last.sender_phone = "unbound" => last.sends = <<>>)

\* C3: a book_appointment intent with a non-empty name and a date written
\* YYYY-MM-DD that is today or later, when no persistence call fails, adds
\* exactly one row with that name and that date to the table and is
\* answered with the confirmation message, which contains the name and the
\* date.
C3_ValidBookingPersisted ==
  (/\ BookIntent
   /\ Intent.name.t = "str" /\ Intent.name.v # <<>>
   /\ Intent.date.t = "str" /\ IsoDate(Intent.date.v)
   /\ Ordinal(IsoValue(Intent.date.v)) >= Ordinal(today)
   /\ ~DbFailed)
    => /\ Len(store) = Len(before) + 1
       /\ SubSeq(store, 1, Len(before)) = before
       /\ store[Len(store)].name = Intent.name.v
       /\ store[Len(store)].time = IsoValue(Intent.date.v)
       /\ Replied(Confirmation(Intent.name.v, Intent.date.v))
       /\ Contains(last.sends[1].body, Intent.name.v)
       /\ Contains(last.sends[1].body, Intent.date.v)

\* C3 witness: a booking for today itself was stored and confirmed.
C3_Witness ==
  /\ BookIntent /\ Created(last)
  /\ IsoDate(Intent.date.v) /\ IsoValue(Intent.date.v) = today
  /\ Len(store) = Len(before) + 1
  /\ Replied(Confirmation(Intent.name.v, Intent.date.v))

\* C4 as stated: every book_appointment intent whose date parses and lies
\* before today creates no row and is answered with the past-date message.
\* (Fails for an intent without a name, which is answered with the
\* missing-fields message.)
C4_PastDateRejected_AsStated ==
  (/\ BookIntent
   /\ Intent.date.t = "str" /\ strptime(Intent.date.v) # NoDate
   /\ Ordinal(strptime(Intent.date.v)) < Ordinal(today))
    => store = before /\ Replied(PAST_DATE)

\* C4 amended: a book_appointment intent with a non-empty name whose date
\* parses and lies strictly before today makes no persistence call, leaves
\* the table unchanged and is answered with the past-date message; a date
\* equal to today is not answered with the past-date message.
C4_PastDateRejected ==
  (/\ BookIntent
   /\ Intent.name.t = "str" /\ Intent.name.v # <<>>
   /\ Intent.date.t = "str" /\ strptime(Intent.date.v) # NoDate)
    => /\ Ordinal(strptime(Intent.date.v)) < Ordinal(today)
            => (store = before /\ last.db = <<>> /\ Replied(PAST_DATE))
       /\ Ordinal(strptime(Intent.date.v)) = Ordinal(today)
            => ~Replied(PAST_DATE)

\* C4 witness: a named booking for a day before today was turned down, and
\* that day had been bookable before the clock passed midnight.
C4_Witness ==
  /\ BookIntent /\ Truthy(Intent.name)
  /\ Intent.date.t = "str" /\ strptime(Intent.date.v) = StartDay
  /\ today # StartDay
  /\ Replied(PAST_DATE) /\ store = before

\* C5: a book_appointment intent with a non-empty name whose (non-empty)
\* date string is not a calendar date written YYYY-MM-DD creates no row and
\* is answered with the date-format message.  (As stated; the code accepts
\* one-digit months and days.)
C5_MalformedDateRejected ==
  (/\ BookIntent
   /\ Intent.name.t = "str" /\ Intent.name.v # <<>>
   /\ Intent.date.t = "str" /\ Intent.date.v # <<>>
   /\ ~IsoDate(Intent.date.v))
    => store = before /\ Replied(DATE_FORMAT)

\* C6: a model output that parses as JSON but is no record (an array, a
\* string, null) is answered with the trimmed raw model text.  (As stated,
\* for the values that are no record; the code answers with the
\* unexpected-error message.)
C6_NonRecordEchoed ==
  (/\ Done /\ last.llm = "ok"
   /\ json_loads(last.raw) # NoDoc
   /\ json_loads(last.raw).kind # "object")
    => Replied(Strip(RawText(last.raw)))

\* C7: a record wrapped in a code fence yields the same intent as the
\* record alone.  (As stated; the code does not strip the fence.)
C7_FenceTransparent ==
  (/\ Done /\ last.llm = "ok"
   /\ last.raw.doc.kind = "object"
   /\ last.raw.pre # <<>> /\ last.raw.pre[1] = "<fence>"
   /\ last.raw.post # <<>> /\ last.raw.post[Len(last.raw.post)] = "<fence>")
    => Intent = last.raw.doc

\* C8: every persistence failure, a failed write while booking or a failed
\* read while listing, is answered with the storage-error apology that
\* gives the clinic phone number; no row is added and the failed call is
\* not made again.  (As stated; a failed read is answered with the
\* unexpected-error message.)
C8_PersistenceFailureRecovered ==
  (Done /\ DbFailed)
    => /\ Replied(STORAGE_ERROR)
       /\ store = before
       /\ Cardinality({i \in 1..Len(last.db) : last.db[i].out = "error"}) = 1
       /\ last.db[Len(last.db)].out = "error"

\* The lines of a text: its tokens between the "\n" tokens.
RECURSIVE SplitLines(_)
SplitLines(text) ==
  IF \A i \in 1..Len(text) : text[i] # "\n"
  THEN <<text>>
  ELSE LET k == CHOOSE i \in 1..Len(text) :
                  text[i] = "\n" /\ \A j \in 1..(i - 1) : text[j] # "\n"
       IN <<SubSeq(text, 1, k - 1)>> \o SplitLines(SubSeq(text, k + 1, Len(text)))

\* The date a listing line ends with, read digit by digit; NoDate when the
\* line does not end with a date written YYYY-MM-DD.
LineDate(line) ==
  IF Len(line) >= 10 /\ IsoForm(SubSeq(line, Len(line) - 9, Len(line)))
  THEN IsoValue(SubSeq(line, Len(line) - 9, Len(line)))
  ELSE NoDate

\* The reply of a listing of a non-empty table: the header, then one line
\* per stored row carrying the row's name and its date as YYYY-MM-DD, the
\* lines in non-decreasing date order.
C9_ListingShowsStore ==
  (Done /\ Listed(last) /\ store # <<>>)
    => /\ last.sends # <<>>
       /\ LET lines == SplitLines(last.sends[1].body)
              n == Len(store)
          IN /\ Len(lines) = n + 1
             /\ lines[1] = LIST_HEADER
             /\ \E f \in [1..n -> 1..n] :
                  /\ IsPermutation(f, n)
                  /\ \A i \in 1..n :
                       /\ Contains(lines[i + 1], store[f[i]].name)
                       /\ LineDate(lines[i + 1]) = store[f[i]].time
             /\ \A i \in 1..n : \A j \in i..n :
                  Ordinal(LineDate(lines[i + 1])) <= Ordinal(LineDate(lines[j + 1]))

\* A booking that succeeds appends the row of its name and date, and no
\* step removes or changes a stored row.
C9_RowsStay ==
  /\ Len(store') >= Len(store)
  /\ SubSeq(store', 1, Len(store)) = store
  /\ (Idle /\ Created(last') /\ IsoDate(last'.gemini_structured_response.date.v))
       => /\ Len(store') = Len(store) + 1
          /\ store'[Len(store')].name = last'.gemini_structured_response.name.v
          /\ store'[Len(store')].time =
               IsoValue(last'.gemini_structured_response.date.v)

\* C9: after a booking of (name, date) succeeds, every later listing that
\* the database answers, after any further messages, has a line with that
\* name and that date rendered as YYYY-MM-DD; the lines of every listing
\* are in non-decreasing date order, one line per stored row after the
\* header line.
C9_ListingRoundTrip == []C9_ListingShowsStore /\ [][C9_RowsStay]_vars

\* C9 witness: a listing of two rows whose dates differ, the later date
\* booked first.
C9_Witness ==
  /\ Done /\ Listed(last) /\ last.sends # <<>>
  /\ Len(store) = 2
  /\ Ordinal(store[2].time) < Ordinal(store[1].time)
  /\ Len(SplitLines(last.sends[1].body)) = 1 + 2
  /\ LineDate(SplitLines(last.sends[1].body)[2]) = store[2].time

\* C10: two list_appointments requests with no appointment created between
\* them get the same reply text, also when stored appointments share a
\* date.  (As stated; the query orders by date alone, and the order of rows
\* of equal date is the database's choice at each query.)
C10_ListingRepeatable ==
  (Done /\ Listed(last) /\ prevListing # NoListing)
    => Replied(prevListing)

\* C11: for a record whose action is chat, null, absent or any value other
\* than book_appointment and list_appointments, the handler makes no
\* persistence call, the store is unchanged, and the reply is the record's
\* response string when the record has one and the clarification message
\* when it has none.
C11_ChatHasNoSideEffect ==
  (/\ Done /\ Intent.kind = "object"
   /\ Intent.action \notin {Str(<<"book_appointment">>), Str(<<"list_appointments">>)}
   /\ Intent.response.t \in {"absent", "str"})
    => /\ last.db = <<>>
       /\ store = before
       /\ Intent.response.t = "str" => Replied(Intent.response.v)
       /\ Intent.response.t = "absent" => Replied(CLARIFY)

\* C11 witness: a record with an unrecognized action and a response string
\* is answered with that string, the store holding a row already.
C11_Witness ==
  /\ Done /\ Intent.kind = "object"
  /\ Intent.action = Str(<<"cancel">>)
  /\ Intent.response.t = "str" /\ Intent.response.v # CLARIFY
  /\ Replied(Intent.response.v)
  /\ store # <<>> /\ store = before /\ last.db = <<>>

\* C12: when the call of the language model raises, get_gemini_response
\* returns the chat record carrying the apology with the clinic's phone
\* number, the handler's except clause does not see the failure, the
\* reply is that apology, no row is created and no persistence call made,
\* and the model was called exactly once for the message.
C12_ModelFailureContained ==
  (Done /\ last.llm = "error")
    => /\ Intent = Object(Str(<<"chat">>), Absent, Absent, Str(MODEL_ERROR))
       /\ Contains(MODEL_ERROR, <<"+20 2 1234-5678">>)
       /\ Replied(MODEL_ERROR)
       /\ last.sends[1].to = payload.from
       /\ last.caught \in {"none", "UnboundLocalError"}
       /\ last.caught = "UnboundLocalError" => last.sends[1].out = "conn_error"
       /\ last.db = <<>> /\ store = before
       /\ last.llm_calls = 1

\* C12 witness: the model call failed for an audio message whose media was
\* fetched, and the apology was delivered.
C12_Witness ==
  /\ Done /\ last.llm = "error" /\ last.llm_calls = 1
  /\ payload.type = "audio" /\ last.media = "ok"
  /\ last.sends = <<[to |-> payload.from, body |-> MODEL_ERROR, out |-> "delivered"]>>
  /\ last.status = "ok"

\* C13: a list_appointments intent handled while the table holds no row,
\* the count query answering, is replied to with the no-appointments
\* message alone, and the handler returns its acknowledgement instead of
\* raising.  (As stated; the handler raises when send_message raises for
\* the reply and again inside the except clause.)
C13_EmptyListing ==
  (/\ Done /\ Intent.kind = "object"
   /\ Intent.action = Str(<<"list_appointments">>)
   /\ before = <<>> /\ ~DbFailed)
    => /\ Replied(NO_APPOINTMENTS)
       /\ last.db = <<[op |-> "count", out |-> "ok"]>>
       /\ last.status = "ok"

\* The record asks for a booking that passes the handler's validation on
\* the day of the run: a non-empty name, a date string that parses, the
\* date today or later.
ValidBooking ==
  /\ BookIntent
  /\ Intent.name.t = "str" /\ Intent.name.v # <<>>
  /\ Intent.date.t = "str" /\ strptime(Intent.date.v) # NoDate
  /\ Ordinal(strptime(Intent.date.v)) >= Ordinal(today)

\* C15: the table changes only in a run of a book_appointment intent that
\* passed validation and whose write succeeded, and then by exactly one
\* appended row; every other run (list, chat, fallback, failed validation,
\* failed model call, failed media fetch, failed write) and every other
\* step leaves it as it was, and no stored row is ever changed or removed.
C15_StoreChangesOnlyByBooking ==
  /\ ~Done => store = before
  /\ Done =>
       /\ Len(store) >= Len(before)
       /\ SubSeq(store, 1, Len(before)) = before
       /\ store # before
            => /\ ValidBooking /\ Created(last) /\ ~DbFailed
               /\ Len(store) = Len(before) + 1
               /\ store[Len(store)].name = Intent.name.v
               /\ store[Len(store)].time = strptime(Intent.date.v)
       /\ (ValidBooking /\ ~DbFailed) => Len(store) = Len(before) + 1
       /\ (last.media \in {"meta_fail", "download_fail"} \/ last.llm = "error")
            => store = before

\* C15 witness: a validated booking of a later day added the second row to
\* a table of one row.
C15_Witness ==
  /\ Done /\ ValidBooking /\ Created(last)
  /\ Len(before) = 1 /\ Len(store) = 2
  /\ SubSeq(store, 1, 1) = before
  /\ Ordinal(store[2].time) > Ordinal(today)

\* A string field of the record that is absent, null or empty.
Missing(val) == val.t \in {"absent", "null"} \/ (val.t = "str" /\ val.v = <<>>)

\* C17: a book_appointment intent whose name is empty or absent, or whose
\* date is empty or absent, is replied to with the missing-fields message;
\* strptime is not called, no persistence call is made and the table is
\* unchanged.
C17_MissingFields ==
  (BookIntent /\ (Missing(Intent.name) \/ Missing(Intent.date)))
    => /\ Replied(MISSING_FIELDS)
       /\ ~last.parsed
       /\ last.db = <<>>
       /\ store = before

\* C17 witness: an empty name with a date that would have been accepted.
C17_Witness ==
  /\ BookIntent
  /\ Intent.name = Str(<<>>)
  /\ Intent.date.t = "str" /\ IsoDate(Intent.date.v)
  /\ Ordinal(IsoValue(Intent.date.v)) > Ordinal(today)
  /\ Replied(MISSING_FIELDS) /\ ~last.parsed /\ store = before

\* The rows of a table with the name and date of row r.
SameBooking(rows, r) ==
  {i \in 1..Len(rows) : rows[i].name = r.name /\ rows[i].time = r.time}

\* C18: a booking whose name and date are those of a stored row is
\* accepted like any other: it adds a second row with an identifier that no
\* stored row has and gets the confirmation reply; identifiers in the table
\* are pairwise distinct, a stored row keeps its identifier, and a listing
\* has as many lines for a name and date as the table has rows for them.
C18_DuplicateBookingsKept ==
  /\ \A i \in 1..Len(store) : \A j \in 1..Len(store) :
       store[i].id = store[j].id => i = j
  /\ \A i \in 1..Len(before) : i <= Len(store) /\ store[i].id = before[i].id
  /\ (/\ BookIntent
      /\ Intent.name.t = "str" /\ Intent.name.v # <<>>
      /\ Intent.date.t = "str" /\ IsoDate(Intent.date.v)
      /\ Ordinal(IsoValue(Intent.date.v)) >= Ordinal(today)
      /\ ~DbFailed
      /\ \E i \in 1..Len(before) :
           /\ before[i].name = Intent.name.v
           /\ before[i].time = IsoValue(Intent.date.v))
       => /\ Len(store) = Len(before) + 1
          /\ store[Len(store)].name = Intent.name.v
          /\ store[Len(store)].time = IsoValue(Intent.date.v)
          /\ \A i \in 1..Len(before) : before[i].id # store[Len(store)].id
          /\ Replied(Confirmation(Intent.name.v, Intent.date.v))
  /\ (Done /\ Listed(last) /\ store # <<>>)
       => /\ last.sends # <<>>
          /\ LET lines == SplitLines(last.sends[1].body)
             IN \A i \in 1..Len(store) :
                  Cardinality({k \in 2..Len(lines) :
                                 /\ Contains(lines[k], store[i].name)
                                 /\ LineDate(lines[k]) = store[i].time})
                    = Cardinality(SameBooking(store, store[i]))

\* C18 witness: the same name and date booked twice, then listed: two rows
\* with different identifiers and two equal lines after the header.
C18_Witness ==
  /\ Done /\ Listed(last) /\ last.sends # <<>>
  /\ Len(store) = 2
  /\ store[1].name = store[2].name /\ store[1].time = store[2].time
  /\ store[1].id # store[2].id
  /\ LET lines == SplitLines(last.sends[1].body)
     IN Len(lines) = 3 /\ lines[2] = lines[3]
        /\ Contains(lines[2], store[1].name)

\* C16: when the media fetch of an audio message fails, at the metadata
\* lookup or at the download, the handler makes one send_message call, with
\* the resend-or-type apology for the sender, does not call the language
\* model, makes no persistence call, leaves the table unchanged and returns
\* its acknowledgement.  (As stated; when that send raises, the handler's
\* except clause sends a second message, and raises itself when the second
\* send raises too.)
C16_MediaFailure ==
  (Done /\ payload.type = "audio" /\ last.media \in {"meta_fail", "download_fail"})
    => /\ Len(last.sends) = 1
       /\ last.sends[1].to = payload.from
       /\ last.sends[1].body = AUDIO_FAIL
       /\ last.llm_calls = 0 /\ last.llm = "none"
       /\ last.db = <<>> /\ store = before
       /\ last.status = "ok"

\* A GET /webhook request has been answered.
Verified == verify # NoVerify

\* C14, for the requests Meta sends (hub.mode = "subscribe"): GET /webhook
\* answers 200 with the challenge value whenever the verify token of the
\* request equals the configured one, whatever the challenge parameter,
\* answers 403 in every other case, and has no third outcome.  (As stated;
\* int(challenge) raises for a challenge that is absent or no integer
\* literal.  For another mode the code answers 403 whatever the token.)
C14_VerifyTwoOutcomes ==
  (Verified /\ verify.mode = Str(<<"subscribe">>))
    => /\ verify.status \in {200, 403}
       /\ verify.token = Str(VERIFY_TOKEN)
            => /\ verify.status = 200
               /\ int(verify.challenge).exc = "none"
               /\ verify.body = int(verify.challenge).v
       /\ verify.token # Str(VERIFY_TOKEN) => verify.status = 403

\* The identifier of the row a run inserted.
CreatedId(run) == run.nextId - 1

\* C19: with the messages of two senders handled side by side, in every
\* interleaving of their model, database and send steps, every send of a
\* handler is addressed to the sender of its own message; the reply it
\* sends is the one its own model output determines (the response string
\* of its chat record, the apology of its failed model call, the
\* confirmation with the name and date of its booking); a handler whose
\* send did not raise sent one message; and every booking that was written
\* has its own row, with its own identifier, name and date, in the table,
\* so that two bookings written side by side are both there.
C19_HandlersIsolated ==
  \A h \in Handlers :
    LET f == inflight[h]
        r == f.run
        g == r.gemini_structured_response
    IN /\ \A i \in 1..Len(r.sends) : r.sends[i].to = SenderOf(h)
       /\ (f.pc = "done" /\ r.caught = "none") => Len(r.sends) = 1
       /\ (r.sends # <<>> /\ r.llm = "error") => r.sends[1].body = MODEL_ERROR
       /\ (r.sends # <<>> /\ r.llm = "ok" /\ r.raw.doc.kind = "object"
           /\ r.raw.doc.action = Str(<<"chat">>))
            => r.sends[1].body = r.raw.doc.response.v
       /\ Created(r)
            => /\ r.raw.doc.action = Str(<<"book_appointment">>)
               /\ \E i \in 1..Len(store) :
                    /\ store[i].id = CreatedId(r)
                    /\ store[i].name = r.raw.doc.name.v
                    /\ store[i].time = IsoValue(r.raw.doc.date.v)
               /\ r.sends # <<>>
                    => r.sends[1].body =
                         Confirmation(r.raw.doc.name.v, r.raw.doc.date.v)
               /\ \A k \in Handlers \ {h} :
                    Created(inflight[k].run)
                      => CreatedId(inflight[k].run) # CreatedId(r)

\* C19 witness: both handlers have finished and neither has returned yet;
\* each booked for another name, handler 2 wrote its row first, and each
\* delivered its own confirmation to its own sender.
C19_Witness ==
  /\ \A h \in Handlers :
       /\ inflight[h].pc = "done"
       /\ Created(inflight[h].run)
       /\ inflight[h].run.sends =
            <<[to |-> SenderOf(h),
               body |-> Confirmation(inflight[h].run.raw.doc.name.v,
                                     inflight[h].run.raw.doc.date.v),
               out |-> "delivered"]>>
  /\ inflight[1].run.raw.doc.name # inflight[2].run.raw.doc.name
  /\ CreatedId(inflight[2].run) < CreatedId(inflight[1].run)
  /\ Len(store) = 2

\* C20: a listing reply that starts with the header line has at least one
\* appointment line after it, whatever bookings other handlers write
\* between the count query and the row query: it has one line for each row
\* of the table as the row query read it, each line with that row's name
\* and date, that table had at least the rows that were counted, the count
\* was positive, and the rows read are in the table from then on.
C20_HeaderNeverAlone ==
  \A h \in Handlers :
    LET f == inflight[h]
        r == f.run
        lines == SplitLines(r.response_to_user)
    IN /\ \A i \in 1..Len(r.sends) : r.sends[i].body # LIST_HEADER
       /\ (r.response_to_user # <<>> /\ lines[1] = LIST_HEADER)
         => /\ Len(lines) >= 2
            /\ Len(lines) = Len(r.rows) + 1
            /\ \A k \in 2..Len(lines) :
                 \E i \in 1..Len(r.rows) :
                   /\ Contains(lines[k], r.rows[i].name)
                   /\ LineDate(lines[k]) = r.rows[i].time
            /\ 1 <= f.count /\ f.count <= Len(r.rows)
            /\ Len(r.rows) <= Len(store)
            /\ SubSeq(store, 1, Len(r.rows)) = r.rows

\* C20 witness: a handler counted one row, another handler's booking was
\* written before the rows were read, and the listing sent has two lines
\* after the header.
C20_Witness ==
  \E h \in Handlers :
    /\ inflight[h].pc = "done"
    /\ inflight[h].count = 1
    /\ Len(inflight[h].run.rows) = 2
    /\ inflight[h].run.sends # <<>>
    /\ inflight[h].run.sends[1].body = inflight[h].run.response_to_user
    /\ Len(SplitLines(inflight[h].run.sends[1].body)) = 3
    /\ \E k \in Handlers \ {h} : Created(inflight[k].run)

====
